---------------------------- MODULE Spec2Model ----------------------------
(***************************************************************************)
(* Vendor-agreement generator: src/Vendor_agreement.py (DocumentGenerator) *)
(* and the two HTTP handlers of src/main.py that share one generator.      *)
(*                                                                         *)
(* Text.  A Python str is modelled as a sequence of tokens.  A token is an *)
(* atomic piece of text: a bracket, a space, a newline, a punctuation      *)
(* mark, a word or number of the prompt, a word of a block delimiter, or a *)
(* run of template prose that holds no bracket and neither starts nor ends *)
(* with white space.  Concatenating sequences is concatenating the text.   *)
(* No token of the model holds a regex keyword, a delimiter literal or a   *)
(* terminator (newline, comma, period) inside itself, so matching token by *)
(* token is matching character by character.  Dictionary keys and          *)
(* exception messages are TLA+ strings.                                    *)
(***************************************************************************)
EXTENDS Integers, Sequences, FiniteSets, TLC

(***************************************************************************)
(* Character classes of the tokens a prompt is made of.                    *)
(***************************************************************************)
Letters ==
    {"Buyer", "buyer", "purchaser", "Supplier", "supplier", "vendor",
     "product", "item", "scope", "PO", "purchase", "order",
     "price", "amount", "value", "payment", "terms",
     "effective", "start", "date", "delivery", "shipping",
     "quality", "standards",
     "Acme", "Foods", "FreshCo", "Net", "rice", "weekly", "ISO", "Zed",
     "BLOCK", "START", "END", "TITLE", "BUYER"}

Digits == {"5", "30", "123", "500", "50000"}

Whitespace == {" ", "\n"}

\* str.lower() on a token; tokens without an upper-case letter are unchanged.
\* The table lists the words of the prompts, of the delimiters and of the
\* placeholders.  Template prose needs no entry: lower() is applied to prompt
\* text and to block types, and a block type that runs over template prose
\* also holds a bracket, so it is no key of the blocks dict whatever its case.
LowerPairs ==
    {<<"Buyer", "buyer">>, <<"Supplier", "supplier">>, <<"PO", "po">>,
     <<"Acme", "acme">>, <<"Foods", "foods">>, <<"FreshCo", "freshco">>,
     <<"Net", "net">>, <<"ISO", "iso">>, <<"Zed", "zed">>,
     <<"BLOCK", "block">>, <<"START", "start">>, <<"END", "end">>,
     <<"TITLE", "title">>, <<"CONTRACT", "contract">>, <<"ID", "id">>,
     <<"PARTIES", "parties">>, <<"INTRO", "intro">>, <<"BUYER", "buyer">>,
     <<"SUPPLIER", "supplier">>, <<"SCOPE", "scope">>,
     <<"COMMERCIAL", "commercial">>, <<"DELIVERY", "delivery">>,
     <<"QUALITY", "quality">>, <<"PENALTIES", "penalties">>,
     <<"CONFIDENTIALITY", "confidentiality">>,
     <<"NAME", "name">>, <<"ADDRESS", "address">>,
     <<"REPRESENTATIVE", "representative">>, <<"PRODUCT", "product">>,
     <<"DESCRIPTION", "description">>, <<"REFERENCE", "reference">>,
     <<"TOTAL", "total">>, <<"VALUE", "value">>, <<"PAYMENT", "payment">>,
     <<"TERMS", "terms">>, <<"EFFECTIVE", "effective">>, <<"DATE", "date">>,
     <<"SCHEDULE", "schedule">>, <<"AND", "and">>, <<"SPECIFY", "specify">>}

LowerTok(t) ==
    IF \E p \in LowerPairs : p[1] = t
    THEN (CHOOSE p \in LowerPairs : p[1] = t)[2]
    ELSE t

\* str.upper() on the tokens of the placeholder labels.
UpperPairs ==
    {<<"buyer", "BUYER">>, <<"supplier", "SUPPLIER">>, <<"name", "NAME">>,
     <<"address", "ADDRESS">>, <<"representative", "REPRESENTATIVE">>,
     <<"product", "PRODUCT">>, <<"description", "DESCRIPTION">>,
     <<"reference", "REFERENCE">>, <<"total", "TOTAL">>, <<"value", "VALUE">>,
     <<"payment", "PAYMENT">>, <<"terms", "TERMS">>,
     <<"effective", "EFFECTIVE">>, <<"date", "DATE">>,
     <<"delivery", "DELIVERY">>, <<"schedule", "SCHEDULE">>, <<"and", "AND">>}

UpperTok(t) ==
    IF \E p \in UpperPairs : p[1] = t
    THEN (CHOOSE p \in UpperPairs : p[1] = t)[2]
    ELSE t

lower(s) == [i \in DOMAIN s |-> LowerTok(s[i])]

upper(s) == [i \in DOMAIN s |-> UpperTok(s[i])]

\* str.replace(" ", "_")
replace_space(s) == [i \in DOMAIN s |-> IF s[i] = " " THEN "_" ELSE s[i]]

RECURSIVE lstrip(_)
lstrip(s) == IF s # <<>> /\ Head(s) \in Whitespace THEN lstrip(Tail(s)) ELSE s

RECURSIVE rstrip(_)
rstrip(s) ==
    IF s # <<>> /\ s[Len(s)] \in Whitespace
    THEN rstrip(SubSeq(s, 1, Len(s) - 1))
    ELSE s

\* str.strip()
strip(s) == rstrip(lstrip(s))

\* The text of a token sequence as one TLA+ string (used for dictionary keys).
RECURSIVE Join(_)
Join(s) == IF s = <<>> THEN "" ELSE Head(s) \o Join(Tail(s))

(***************************************************************************)
(* Regular expressions.  A pattern is a sequence of nodes, matched by a    *)
(* backtracking matcher that tries the alternatives in the order Python's  *)
(* re module tries them, so the first match found is the match re returns. *)
(***************************************************************************)
\* A literal text: the tokens ts in a row.
Lit(ts) == [op |-> "lit", toks |-> ts]
Set(c) == [op |-> "set", cls |-> c]
Alt(as) == [op |-> "alt", alts |-> as]
Opt(body) == [op |-> "opt", body |-> body]
Star(c) == [op |-> "star", cls |-> c, greedy |-> TRUE]
LazyStar(c) == [op |-> "star", cls |-> c, greedy |-> FALSE]
Open(n) == [op |-> "open", grp |-> n]
Close(n) == [op |-> "close", grp |-> n]
Ahead(body) == [op |-> "ahead", body |-> body]
Eos == [op |-> "eos"]

InClass(t, c, flags) ==
    CASE c = "dot" -> "DOTALL" \in flags \/ t # "\n"
      [] c = "colon_space" -> t \in {":", " "}
      [] c = "name" -> t \in Letters \cup Digits \cup {" ", "&"}
      [] c = "word" -> t \in Letters \cup Digits \cup {"_"}
      [] c = "digit" -> t \in Digits
      [] c = "digit_comma" -> t \in Digits \cup {","}

NoMatch == [ok |-> FALSE]

\* The tokens ts stand in s from position i on.
TextAt(ts, s, i, flags) ==
    /\ i + Len(ts) - 1 <= Len(s)
    /\ \A k \in DOMAIN ts :
         IF "IGNORECASE" \in flags
         THEN LowerTok(s[i + k - 1]) = LowerTok(ts[k])
         ELSE s[i + k - 1] = ts[k]

AtEnd(s, i) == i = Len(s) + 1 \/ (i = Len(s) /\ s[i] = "\n")

\* A look at what pattern re needs first: FALSE only where re has no match
\* from position i, so such positions can be passed over unmatched.
RECURSIVE CanStart(_, _, _, _)
CanStart(re, s, i, flags) ==
    IF re = <<>> THEN TRUE
    ELSE LET n == Head(re)
         IN CASE n.op = "lit" -> TextAt(n.toks, s, i, flags)
              [] n.op = "set" -> i <= Len(s) /\ InClass(s[i], n.cls, flags)
              [] n.op = "alt" ->
                   \E k \in DOMAIN n.alts : CanStart(n.alts[k] \o Tail(re), s, i, flags)
              [] n.op \in {"open", "close"} -> CanStart(Tail(re), s, i, flags)
              [] n.op = "ahead" -> CanStart(n.body, s, i, flags)
              [] n.op = "eos" -> AtEnd(s, i)
              [] OTHER -> TRUE

\* The least position from lo on where re can start, 0 if there is none.
NextStart(re, s, lo, flags) ==
    IF \E j \in lo..(Len(s) + 1) : CanStart(re, s, j, flags)
    THEN CHOOSE j \in lo..(Len(s) + 1) :
           /\ CanStart(re, s, j, flags)
           /\ \A k \in lo..(j - 1) : ~CanStart(re, s, k, flags)
    ELSE 0

\* The least position from lo on that is the end of s or holds a token outside
\* class c: a repetition of c that starts at lo can reach it and no further.
RunEnd(c, s, lo, flags) ==
    CHOOSE j \in lo..(Len(s) + 1) :
      /\ j = Len(s) + 1 \/ ~InClass(s[j], c, flags)
      /\ \A k \in lo..(j - 1) : InClass(s[k], c, flags)

\* The least position from lo on where a lazy repetition of c has to stop or
\* the rest of the pattern can start.
NextStop(rest, c, s, lo, flags) ==
    CHOOSE j \in lo..(Len(s) + 1) :
      /\ \/ j = Len(s) + 1
         \/ ~InClass(s[j], c, flags)
         \/ CanStart(rest, s, j, flags)
      /\ \A k \in lo..(j - 1) :
           InClass(s[k], c, flags) /\ ~CanStart(rest, s, k, flags)

\* The match m, or other when m is none.
OrElse(m, other) == IF m.ok THEN m ELSE other

RECURSIVE Match(_, _, _, _, _)
RECURSIVE MatchAlts(_, _, _, _, _, _, _)
RECURSIVE LastMatch(_, _, _, _, _, _)
RECURSIVE FirstMatch(_, _, _, _, _, _)

\* A greedy repetition takes all it can and gives back one token at a time:
\* the match of the rest of the pattern from the greatest position of lo..hi
\* that has one.
LastMatch(rest, s, lo, hi, caps, flags) ==
    OrElse(Match(rest, s, hi, caps, flags),
           IF hi > lo THEN LastMatch(rest, s, lo, hi - 1, caps, flags) ELSE NoMatch)

\* A lazy repetition of c that has come to position j, where it has to stop or
\* the rest of the pattern can start.
FirstMatchAt(rest, c, s, j, caps, flags) ==
    OrElse(Match(rest, s, j, caps, flags),
           IF j <= Len(s) /\ InClass(s[j], c, flags)
           THEN FirstMatch(rest, c, s, j + 1, caps, flags)
           ELSE NoMatch)

\* A lazy repetition of c takes one more token at a time: the match of the rest
\* of the pattern from the least position from lo on that has one and is
\* reached over tokens of c only.
FirstMatch(rest, c, s, lo, caps, flags) ==
    FirstMatchAt(rest, c, s, NextStop(rest, c, s, lo, flags), caps, flags)

\* Match pattern re against s from position i; caps are the groups so far.
Match(re, s, i, caps, flags) ==
    IF re = <<>> THEN [ok |-> TRUE, end |-> i, caps |-> caps]
    ELSE
      LET n == Head(re)
          rest == Tail(re)
      IN
      CASE n.op = "lit" ->
             IF TextAt(n.toks, s, i, flags)
             THEN Match(rest, s, i + Len(n.toks), caps, flags)
             ELSE NoMatch
        [] n.op = "set" ->
             IF i <= Len(s) /\ InClass(s[i], n.cls, flags)
             THEN Match(rest, s, i + 1, caps, flags)
             ELSE NoMatch
        [] n.op = "alt" -> MatchAlts(n.alts, 1, rest, s, i, caps, flags)
        [] n.op = "opt" ->
             OrElse(Match(n.body \o rest, s, i, caps, flags),
                    Match(rest, s, i, caps, flags))
        [] n.op = "star" /\ n.greedy ->
             LastMatch(rest, s, i, RunEnd(n.cls, s, i, flags), caps, flags)
        [] n.op = "star" /\ ~n.greedy ->
             FirstMatch(rest, n.cls, s, i, caps, flags)
        [] n.op = "open" ->
             Match(rest, s, i, [g \in DOMAIN caps \cup {n.grp} |->
                       IF g = n.grp THEN <<i, 0>> ELSE caps[g]], flags)
        [] n.op = "close" ->
             Match(rest, s, i, [caps EXCEPT ![n.grp] = <<caps[n.grp][1], i>>], flags)
        [] n.op = "ahead" ->
             IF Match(n.body, s, i, caps, flags).ok
             THEN Match(rest, s, i, caps, flags)
             ELSE NoMatch
        [] n.op = "eos" ->
             IF AtEnd(s, i) THEN Match(rest, s, i, caps, flags) ELSE NoMatch

MatchAlts(alts, k, rest, s, i, caps, flags) ==
    IF k > Len(alts) THEN NoMatch
    ELSE OrElse(Match(alts[k] \o rest, s, i, caps, flags),
                MatchAlts(alts, k + 1, rest, s, i, caps, flags))

\* The match object of a match m of the whole pattern that starts at j.
MatchObject(j, m) ==
    IF m.ok THEN [ok |-> TRUE, start |-> j, end |-> m.end, caps |-> m.caps]
    ELSE NoMatch

RECURSIVE SearchFrom(_, _, _, _)

\* The leftmost match that starts at j or later, j a position where the pattern
\* can start (0: there is none).
SearchAt(re, s, j, flags) ==
    IF j = 0 THEN NoMatch
    ELSE OrElse(MatchObject(j, Match(re, s, j, << >>, flags)),
                SearchFrom(re, s, j + 1, flags))

\* The leftmost match that starts at position i or later.
SearchFrom(re, s, i, flags) == SearchAt(re, s, NextStart(re, s, i, flags), flags)

re_search(re, s, flags) == SearchFrom(re, s, 1, flags)

\* match.group(n): None when the group took no part in the match.
group(m, s, n) ==
    IF n \in DOMAIN m.caps
    THEN [isNone |-> FALSE, str |-> SubSeq(s, m.caps[n][1], m.caps[n][2] - 1)]
    ELSE [isNone |-> TRUE, str |-> <<>>]

\* pattern.findall with two groups: the pairs of group texts of the successive
\* non-overlapping matches ("" for a group that took no part).
RECURSIVE FindAllFrom(_, _, _, _)

\* The pairs from match m on.
FindAllAfter(re, s, m, flags) ==
    IF ~m.ok THEN <<>>
    ELSE << <<group(m, s, 1).str, group(m, s, 2).str>> >>
         \o FindAllFrom(re, s, IF m.end > m.start THEN m.end ELSE m.end + 1, flags)

FindAllFrom(re, s, i, flags) == FindAllAfter(re, s, SearchFrom(re, s, i, flags), flags)

findall(re, s, flags) == FindAllFrom(re, s, 1, flags)

(***************************************************************************)
(* Results of Python calls: a returned value or a raised exception.        *)
(***************************************************************************)
Returned(v) == [raised |-> FALSE, value |-> v]

Raised(msg) == [raised |-> TRUE, error |-> msg]

\* str(e) of the AttributeError of None.strip()
NoneTypeStrip == "'NoneType' object has no attribute 'strip'"

\* x or d, for strings
Or(x, d) == IF x = <<>> THEN d ELSE x

\* dict.get(k, d)
get(d, k, default) == IF k \in DOMAIN d THEN d[k] ELSE default

(***************************************************************************)
(* Field extraction: DocumentGenerator._parse_user_prompt.                 *)
(***************************************************************************)
_placeholder(label) == <<"[">> \o upper(label) \o <<"]">>

\* (?=\n|,|\.|$)
UntilTerminator == Ahead(<<Alt(<< <<Lit(<<"\n">>)>>, <<Lit(<<",">>)>>, <<Lit(<<".">>)>>, <<Eos>> >>)>>)

\* (?:buyer|purchaser)[: ]([A-Za-z0-9 &]+)
buyer_name_pattern ==
    <<Alt(<< <<Lit(<<"buyer">>)>>, <<Lit(<<"purchaser">>)>> >>), Set("colon_space"),
      Open(1), Set("name"), Star("name"), Close(1)>>

\* (?:supplier|vendor)[: ]([A-Za-z0-9 &]+)
supplier_name_pattern ==
    <<Alt(<< <<Lit(<<"supplier">>)>>, <<Lit(<<"vendor">>)>> >>), Set("colon_space"),
      Open(1), Set("name"), Star("name"), Close(1)>>

\* (?:product|item|scope)[: ](.+?)(?=\n|,|\.|$)
product_pattern ==
    <<Alt(<< <<Lit(<<"product">>)>>, <<Lit(<<"item">>)>>, <<Lit(<<"scope">>)>> >>),
      Set("colon_space"),
      Open(1), Set("dot"), LazyStar("dot"), Close(1), UntilTerminator>>

\* (?:PO|purchase order)[: ]?(#?\w+)
po_reference_pattern ==
    <<Alt(<< <<Lit(<<"PO">>)>>, <<Lit(<<"purchase", " ", "order">>)>> >>),
      Opt(<<Set("colon_space")>>),
      Open(1), Opt(<<Lit(<<"#">>)>>), Set("word"), Star("word"), Close(1)>>

\* (?:price|amount|value)[: ]?(₹|\$|€)?(\d[\d,]*)
price_pattern ==
    <<Alt(<< <<Lit(<<"price">>)>>, <<Lit(<<"amount">>)>>, <<Lit(<<"value">>)>> >>),
      Opt(<<Set("colon_space")>>),
      Opt(<<Open(1), Alt(<< <<Lit(<<"₹">>)>>, <<Lit(<<"$">>)>>, <<Lit(<<"€">>)>> >>), Close(1)>>),
      Open(2), Set("digit"), Star("digit_comma"), Close(2)>>

\* (?:payment terms|payment)[: ](.+?)(?=\n|,|\.|$)
payment_terms_pattern ==
    <<Alt(<< <<Lit(<<"payment", " ", "terms">>)>>, <<Lit(<<"payment">>)>> >>),
      Set("colon_space"),
      Open(1), Set("dot"), LazyStar("dot"), Close(1), UntilTerminator>>

\* (?:effective date|start date)[: ](.+?)(?=\n|,|\.|$)
effective_date_pattern ==
    <<Alt(<< <<Lit(<<"effective", " ", "date">>)>>,
             <<Lit(<<"start", " ", "date">>)>> >>),
      Set("colon_space"),
      Open(1), Set("dot"), LazyStar("dot"), Close(1), UntilTerminator>>

\* (?:delivery|shipping)[: ](.+?)(?=\n|,|\.|$)
delivery_pattern ==
    <<Alt(<< <<Lit(<<"delivery">>)>>, <<Lit(<<"shipping">>)>> >>), Set("colon_space"),
      Open(1), Set("dot"), LazyStar("dot"), Close(1), UntilTerminator>>

\* (?:quality standards|standards)[: ](.+?)(?=\n|,|\.|$)
quality_standards_pattern ==
    <<Alt(<< <<Lit(<<"quality", " ", "standards">>)>>, <<Lit(<<"standards">>)>> >>),
      Set("colon_space"),
      Open(1), Set("dot"), LazyStar("dot"), Close(1), UntilTerminator>>

\* match.group(1).strip() if match else default.  group(1) is None, and
\* .strip() raises, when the pattern matched without its first group.
StripGroup(match, text, default) ==
    IF match.ok
    THEN IF group(match, text, 1).isNone
         THEN Raised(NoneTypeStrip)
         ELSE Returned(strip(group(match, text, 1).str))
    ELSE Returned(default)

\* match = re.search(pattern, text, re.IGNORECASE)
_extract_pattern(text, pattern, default) ==
    StripGroup(re_search(pattern, text, {"IGNORECASE"}), text, default)

FieldKeys ==
    <<"buyer_name", "supplier_name", "product", "po_reference", "price",
      "payment_terms", "effective_date", "delivery", "quality_standards">>

FieldPattern ==
    [buyer_name |-> buyer_name_pattern, supplier_name |-> supplier_name_pattern,
     product |-> product_pattern, po_reference |-> po_reference_pattern,
     price |-> price_pattern, payment_terms |-> payment_terms_pattern,
     effective_date |-> effective_date_pattern, delivery |-> delivery_pattern,
     quality_standards |-> quality_standards_pattern]

QualityDefault == <<"ISO 22000 and FSSAI food safety standards">>

FieldDefault ==
    [buyer_name |-> _placeholder(<<"buyer", " ", "name">>),
     supplier_name |-> _placeholder(<<"supplier", " ", "name">>),
     product |-> _placeholder(<<"product", " ", "description">>),
     po_reference |-> _placeholder(<<"PO", " ", "reference">>),
     price |-> _placeholder(<<"total", " ", "value">>),
     payment_terms |-> _placeholder(<<"payment", " ", "terms">>),
     effective_date |-> _placeholder(<<"effective", " ", "date">>),
     delivery |-> _placeholder(<<"delivery", " ", "schedule", " ", "and", " ", "address">>),
     quality_standards |-> QualityDefault]

\* The dict display is evaluated entry by entry, in order; the first entry
\* whose extraction raises ends the call with that exception.
FieldsOf(extracted) ==
    LET failed == {i \in DOMAIN FieldKeys : extracted[FieldKeys[i]].raised}
    IN IF failed # {}
       THEN extracted[FieldKeys[CHOOSE i \in failed : \A j \in failed : i <= j]]
       ELSE Returned([k \in DOMAIN extracted |->
                        Or(extracted[k].value, FieldDefault[k])])

_parse_user_prompt(user_prompt) ==
    FieldsOf([k \in DOMAIN FieldPattern |->
                _extract_pattern(user_prompt, FieldPattern[k], <<>>)])

(***************************************************************************)
(* DocumentGenerator.__init__: the dates are taken from the clock once,    *)
(* when the generator is constructed.  now is [year, month, day].          *)
(***************************************************************************)
MonthName ==
    <<"January", "February", "March", "April", "May", "June", "July",
      "August", "September", "October", "November", "December">>

IsLeap(y) == (y % 4 = 0 /\ y % 100 # 0) \/ y % 400 = 0

DaysInMonth(y, m) ==
    IF m = 2 THEN (IF IsLeap(y) THEN 29 ELSE 28)
    ELSE IF m \in {4, 6, 9, 11} THEN 30 ELSE 31

DaysInYear(y) == IF IsLeap(y) THEN 366 ELSE 365

RECURSIVE DayOfYear(_, _, _)
DayOfYear(y, m, d) == IF m = 1 THEN d ELSE DaysInMonth(y, m - 1) + DayOfYear(y, m - 1, d)

RECURSIVE DateOfDay(_, _, _)
DateOfDay(y, m, n) ==
    IF n > DaysInMonth(y, m)
    THEN DateOfDay(y, m + 1, n - DaysInMonth(y, m))
    ELSE [year |-> y, month |-> m, day |-> n]

\* now + timedelta(days=365)
PlusOneYear(now) ==
    LET n == DayOfYear(now.year, now.month, now.day) + 365
    IN IF n > DaysInYear(now.year)
       THEN DateOfDay(now.year + 1, 1, n - DaysInYear(now.year))
       ELSE DateOfDay(now.year, 1, n)

\* {n:02d}
Pad2(n) == IF n < 10 THEN "0" \o ToString(n) ELSE ToString(n)

\* strftime("%B %d, %Y")
strftime(date) ==
    <<MonthName[date.month], " ", Pad2(date.day) \o ",", " ", ToString(date.year)>>

\* self.parsed_prompt = {}
EmptyFields == [k \in {} |-> <<>>]

DocumentGenerator(now) ==
    [today |-> strftime(now),
     one_year_later |-> strftime(PlusOneYear(now)),
     contract_id |-> <<"CTR-" \o ToString(now.year) \o "-" \o Pad2(now.month) \o Pad2(now.day)>>,
     parsed_prompt |-> EmptyFields]

(***************************************************************************)
(* Block rendering: one function per block, each wrapping its text in its  *)
(* own [NAME BLOCK START] ... [NAME BLOCK END] delimiters.                 *)
(***************************************************************************)
BlockStart(name) == <<"[">> \o name \o <<" ", "BLOCK", " ", "START", "]">>

BlockEnd(name) == <<"[">> \o name \o <<" ", "BLOCK", " ", "END", "]">>

_generate_title_block ==
    BlockStart(<<"TITLE">>) \o <<"\n", "Vendor Supply Agreement", "\n">>
    \o BlockEnd(<<"TITLE">>)

_generate_contract_id(self) ==
    BlockStart(<<"CONTRACT", " ", "ID">>) \o <<"\n">>
    \o <<"Contract ID:", " ">> \o self.contract_id \o <<"\n">>
    \o <<"Effective Date:", " ">> \o self.today \o <<"\n">>
    \o <<"End Date:", " ">> \o self.one_year_later \o <<"\n">>
    \o BlockEnd(<<"CONTRACT", " ", "ID">>) \o <<"\n">>

_generate_parties_intro ==
    BlockStart(<<"PARTIES", " ", "INTRO">>)
    \o <<"\n", "This Agreement is made between:", "\n">>
    \o BlockEnd(<<"PARTIES", " ", "INTRO">>)

_generate_buyer_block(self) ==
    LET name == get(self.parsed_prompt, "buyer_name", _placeholder(<<"buyer", " ", "name">>))
        address == _placeholder(<<"buyer", " ", "address">>)
        rep == _placeholder(<<"buyer", " ", "representative">>)
    IN BlockStart(<<"BUYER">>) \o <<"\n">>
       \o <<"Buyer:", "\n">>
       \o <<"Enterprise Name:", " ">> \o name \o <<"\n">>
       \o <<"Address:", " ">> \o address \o <<"\n">>
       \o <<"Authorized Representative:", " ">> \o rep \o <<"\n">>
       \o BlockEnd(<<"BUYER">>)

_generate_supplier_block(self) ==
    LET name == get(self.parsed_prompt, "supplier_name", _placeholder(<<"supplier", " ", "name">>))
        address == _placeholder(<<"supplier", " ", "address">>)
        rep == _placeholder(<<"supplier", " ", "representative">>)
    IN BlockStart(<<"SUPPLIER">>) \o <<"\n">>
       \o <<"Supplier:", "\n">>
       \o <<"Vendor Name:", " ">> \o name \o <<"\n">>
       \o <<"Address:", " ">> \o address \o <<"\n">>
       \o <<"Authorized Representative:", " ">> \o rep \o <<"\n">>
       \o BlockEnd(<<"SUPPLIER">>)

_generate_scope_block(self) ==
    LET product == get(self.parsed_prompt, "product",
                       <<"[", "PRODUCT", " ", "DESCRIPTION", "]">>)
        po_ref == get(self.parsed_prompt, "po_reference",
                      <<"[", "PO", " ", "REFERENCE", "]">>)
    IN BlockStart(<<"SCOPE">>) \o <<"\n">>
       \o <<"1. Scope of Agreement", "\n">>
       \o <<"Supplier agrees to supply", " ">> \o product
       \o <<" ", "as per the specifications and quantities defined in", " ", "PO-">>
       \o po_ref
       \o <<".", " ", "Product must meet the food-grade quality standards prescribed by FSSAI.", "\n">>
       \o BlockEnd(<<"SCOPE">>)

_generate_commercial_block(self) ==
    LET price == get(self.parsed_prompt, "price", <<"[", "TOTAL", " ", "VALUE", "]">>)
        payment_terms == get(self.parsed_prompt, "payment_terms",
                             <<"[", "PAYMENT", " ", "TERMS", "]">>)
    IN BlockStart(<<"COMMERCIAL">>) \o <<"\n">>
       \o <<"2. Commercial Terms", "\n">>
       \o <<"Total Order Value:", " ", "₹">> \o price \o <<"\n">>
       \o <<"Payment Terms:", " ">> \o payment_terms \o <<"\n">>
       \o <<"Price Validity: Fixed for the contract period", "\n">>
       \o <<"Taxes: Inclusive of GST (18%)", "\n">>
       \o BlockEnd(<<"COMMERCIAL">>)

_generate_delivery_block(self) ==
    LET delivery_info == get(self.parsed_prompt, "delivery",
            <<"[", "DELIVERY", " ", "SCHEDULE", " ", "AND", " ", "ADDRESS", "]">>)
    IN BlockStart(<<"DELIVERY">>) \o <<"\n">>
       \o <<"3. Delivery Terms", "\n">>
       \o <<"Delivery Schedule:", " ">> \o delivery_info \o <<"\n">>
       \o <<"Delivery Address:", " ", "[", "SPECIFY", " ", "DELIVERY", " ", "ADDRESS", "]", "\n">>
       \o <<"Delivery Delays: Subject to penalty of ₹2,000 per day beyond 3-day grace period", "\n">>
       \o BlockEnd(<<"DELIVERY">>)

_generate_quality_block(self) ==
    LET standards == get(self.parsed_prompt, "quality_standards", QualityDefault)
    IN BlockStart(<<"QUALITY">>) \o <<"\n">>
       \o <<"4. Quality Assurance", "\n">>
       \o <<"Supplier must adhere to", " ">> \o standards \o <<"\n">>
       \o <<"Buyer reserves the right to conduct periodic inspections", "\n">>
       \o <<"Rejected material will be returned at supplier's cost within 7 days", "\n">>
       \o BlockEnd(<<"QUALITY">>)

_generate_penalties_block ==
    BlockStart(<<"PENALTIES">>) \o <<"\n">>
    \o <<"5. Penalties & Liabilities", "\n">>
    \o <<"Penalty Clause: 5% deduction for any batch with more than 2% foreign matter", "\n">>
    \o <<"Insurance: Supplier shall insure all shipments against transit damage", "\n">>
    \o <<"Indemnity: Supplier will indemnify the buyer against any third-party claims due to quality failure", "\n">>
    \o BlockEnd(<<"PENALTIES">>)

_generate_confidentiality_block ==
    BlockStart(<<"CONFIDENTIALITY">>) \o <<"\n">>
    \o <<"6. Confidentiality", "\n">>
    \o <<"Both parties agree to maintain the confidentiality of all business information", "\n">>
    \o <<"exchanged under this agreement and not disclose it to third parties without", "\n">>
    \o <<"prior written consent. This obligation survives termination of the agreement.", "\n">>
    \o BlockEnd(<<"CONFIDENTIALITY">>)

(***************************************************************************)
(* DocumentGenerator._parse_to_blocks                                      *)
(***************************************************************************)
\* The keys of the blocks dict, in the order the dict display lists them.
BlockNames ==
    <<"title", "contract_id", "parties_intro", "buyer", "supplier", "scope",
      "commercial", "delivery", "quality", "penalties", "confidentiality">>

BlockNameSet == {BlockNames[i] : i \in DOMAIN BlockNames}

\* \[(.*?) BLOCK START\](.*?)\[.*? BLOCK END\]   (re.DOTALL)
block_pattern ==
    <<Lit(<<"[">>), Open(1), LazyStar("dot"), Close(1),
      Lit(<<" ", "BLOCK", " ", "START", "]">>),
      Open(2), LazyStar("dot"), Close(2),
      Lit(<<"[">>), LazyStar("dot"), Lit(<<" ", "BLOCK", " ", "END", "]">>)>>

\* The loop over found_blocks: each match whose key is in blocks stores its
\* stripped text there, so a key ends up with the text of its last match.
StoreBlocks(blocks, found_blocks) ==
    LET block_key == {<<Join(replace_space(lower(found_blocks[i][1]))), i>> :
                        i \in DOMAIN found_blocks}
    IN [k \in DOMAIN blocks |->
          LET stored == {i \in DOMAIN found_blocks : <<k, i>> \in block_key}
          IN IF stored = {} THEN blocks[k]
             ELSE strip(found_blocks[CHOOSE i \in stored : \A j \in stored : j <= i][2])]

\* The blocks dict after the scan, before validation.
ScanBlocks(content) ==
    StoreBlocks([k \in BlockNameSet |-> <<>>], findall(block_pattern, content, {"DOTALL"}))

MissingBlock(block_name) == "Missing required block: " \o block_name

\* A variant without the validation loop: the blocks dict is returned as it is.
\* C7 tells it from ValidateBlocks.
ReturnUnvalidated(blocks) == Returned(blocks)

\* The validation loop raises at the first empty block in dict order.
ValidateBlocks(blocks) ==
    LET empty == {i \in DOMAIN BlockNames : blocks[BlockNames[i]] = <<>>}
    IN IF empty # {}
       THEN Raised(MissingBlock(BlockNames[CHOOSE i \in empty : \A j \in empty : i <= j]))
       ELSE Returned(blocks)

_parse_to_blocks(content) == ValidateBlocks(ScanBlocks(content))

(***************************************************************************)
(* DocumentGenerator.generate_agreement.  The call assigns                 *)
(* self.parsed_prompt before it renders, so the result names the generator *)
(* after the call (self), the rendered text (content) and what the call    *)
(* returned or raised (result).                                            *)
(***************************************************************************)
\* "\n\n".join(parts)
RECURSIVE JoinRange(_, _, _)
JoinRange(parts, lo, hi) ==
    IF lo = hi THEN parts[lo]
    ELSE JoinRange(parts, lo, (lo + hi) \div 2) \o <<"\n", "\n">>
         \o JoinRange(parts, (lo + hi) \div 2 + 1, hi)

JoinBlankLine(parts) == JoinRange(parts, 1, Len(parts))

RenderAll(self) ==
    JoinBlankLine(<<_generate_title_block,
                    _generate_contract_id(self),
                    _generate_parties_intro,
                    _generate_buyer_block(self),
                    _generate_supplier_block(self),
                    _generate_scope_block(self),
                    _generate_commercial_block(self),
                    _generate_delivery_block(self),
                    _generate_quality_block(self),
                    _generate_penalties_block,
                    _generate_confidentiality_block>>)

\* The rest of generate_agreement once self.parsed_prompt is assigned.
RenderAndParse(self, generated_content) ==
    [self |-> self, content |-> generated_content,
     result |-> _parse_to_blocks(generated_content)]

\* self.parsed_prompt = parsed, unless the extraction raised.
AssignParsed(self, parsed) ==
    IF parsed.raised
    THEN [self |-> self, content |-> <<>>, result |-> parsed]
    ELSE RenderAndParse([self EXCEPT !.parsed_prompt = parsed.value],
                        RenderAll([self EXCEPT !.parsed_prompt = parsed.value]))

generate_agreement(self, user_prompt) ==
    AssignParsed(self, _parse_user_prompt(user_prompt))

(***************************************************************************)
(* The HTTP handlers of main.py.  Both are coroutines without an await, so *)
(* the event loop runs each to completion before it starts the next:       *)
(* requests in flight at the same time are served one after the other, in  *)
(* any order.  A handler yields the generator after the call, the text it  *)
(* rendered (<<>> if it did not get that far) and its JSON response.       *)
(***************************************************************************)
SuccessAgreement(agreement) == [status |-> "success", agreement |-> agreement]

SuccessBlock(block_name, body) == ("status" :> "success") @@ (block_name :> body)

ErrorResponse(message) == [status |-> "error", message |-> message]

InvalidBlockName == [error |-> "Invalid block name"]

PromptRequired == "user_prompt parameter is required"

\* The return statements of the POST handler.
AgreementResponse(call) ==
    [generator |-> call.self,
     content |-> call.content,
     response |-> IF call.result.raised
                  THEN ErrorResponse(call.result.error)
                  ELSE SuccessAgreement(call.result.value)]

\* POST /generate_agreement
post_generate_agreement(gen, user_prompt) ==
    AgreementResponse(generate_agreement(gen, user_prompt))

\* The if/elif chain of generate_single_block, for a recognized name.
RenderBlock(gen, block_name) ==
    CASE block_name = "title" -> _generate_title_block
      [] block_name = "contract_id" -> _generate_contract_id(gen)
      [] block_name = "parties_intro" -> _generate_parties_intro
      [] block_name = "buyer" -> _generate_buyer_block(gen)
      [] block_name = "supplier" -> _generate_supplier_block(gen)
      [] block_name = "scope" -> _generate_scope_block(gen)
      [] block_name = "commercial" -> _generate_commercial_block(gen)
      [] block_name = "delivery" -> _generate_delivery_block(gen)
      [] block_name = "quality" -> _generate_quality_block(gen)
      [] block_name = "penalties" -> _generate_penalties_block
      [] block_name = "confidentiality" -> _generate_confidentiality_block

\* A GET that ends before a block is rendered.
Ended(gen, response) == [generator |-> gen, content |-> <<>>, response |-> response]

\* The return statements after parsed = generator._parse_to_blocks(content).
BlockResponse(block_name, parsed) ==
    IF parsed.raised THEN ErrorResponse(parsed.error)
    ELSE SuccessBlock(block_name, get(parsed.value, block_name, <<>>))

\* The handler from the if/elif chain on; parsed_prompt is what
\* generator._parse_user_prompt(user_prompt) returned or raised, and the value
\* it returned is dropped.
RenderSingleBlock(gen, block_name, parsed_prompt, content) ==
    IF parsed_prompt.raised THEN Ended(gen, ErrorResponse(parsed_prompt.error))
    ELSE IF block_name \notin BlockNameSet THEN Ended(gen, InvalidBlockName)
    ELSE [generator |-> gen, content |-> content,
          response |-> BlockResponse(block_name, _parse_to_blocks(content))]

\* A variant that keeps the fields it extracted in the generator, as
\* generate_agreement does, and renders the block from them.  C10 tells it from
\* generate_single_block.
StoreThenRenderBlock(gen, block_name, user_prompt) ==
    LET parsed_prompt == _parse_user_prompt(user_prompt)
        stored == IF parsed_prompt.raised THEN gen
                  ELSE [gen EXCEPT !.parsed_prompt = parsed_prompt.value]
    IN IF user_prompt = <<>> THEN Ended(gen, ErrorResponse(PromptRequired))
       ELSE RenderSingleBlock(stored, block_name, parsed_prompt,
                              RenderBlock(stored, block_name))

\* GET /generate_block/{block_name}?user_prompt=...   An omitted user_prompt
\* (None) and an empty one are both falsy; both are the empty text here.
generate_single_block(gen, block_name, user_prompt) ==
    IF user_prompt = <<>> THEN Ended(gen, ErrorResponse(PromptRequired))
    ELSE RenderSingleBlock(gen, block_name, _parse_user_prompt(user_prompt),
                           RenderBlock(gen, block_name))

(***************************************************************************)
(* Inputs.                                                                 *)
(***************************************************************************)
\* "Buyer: Acme Foods"
AcmePrompt == <<"Buyer", ":", " ", "Acme", " ", "Foods">>

\* "Supplier: FreshCo, price: ₹50000, payment: Net 30"
FreshCoPrompt ==
    <<"Supplier", ":", " ", "FreshCo", ",", " ", "price", ":", " ", "₹", "50000",
      ",", " ", "payment", ":", " ", "Net", " ", "30">>

\* "price 500"
BarePricePrompt == <<"price", " ", "500">>

\* "item:[ BLOCK END]"
MarkerPrompt == <<"item", ":", "[", " ", "BLOCK", " ", "END", "]">>

\* "Buyer: Acme Foods, vendor: FreshCo, item: rice, PO #123, price ₹500,
\*  payment terms: Net 30, start date: 5, delivery: weekly, standards: ISO"
FullPrompt ==
    <<"Buyer", ":", " ", "Acme", " ", "Foods", ",", " ", "vendor", ":", " ", "FreshCo",
      ",", " ", "item", ":", " ", "rice", ",", " ", "PO", " ", "#", "123",
      ",", " ", "price", " ", "₹", "500", ",", " ",
      "payment", " ", "terms", ":", " ", "Net", " ", "30", ",", " ",
      "start", " ", "date", ":", " ", "5", ",", " ",
      "delivery", ":", " ", "weekly", ",", " ", "standards", ":", " ", "ISO">>

\* "item:[ BLOCK END][TITLE BLOCK START]Zed[ BLOCK END]": a product text that
\* closes the block it is rendered in and opens a title block of its own.
InjectedTitlePrompt ==
    <<"item", ":", "[", " ", "BLOCK", " ", "END", "]",
      "[", "TITLE", " ", "BLOCK", " ", "START", "]", "Zed",
      "[", " ", "BLOCK", " ", "END", "]">>

ExamplePrompts ==
    {AcmePrompt, FreshCoPrompt, BarePricePrompt, MarkerPrompt, FullPrompt,
     InjectedTitlePrompt}

\* The prompts the two handlers are called with; <<>> is the empty prompt.
ServerPrompts == {<<>>, AcmePrompt, BarePricePrompt, InjectedTitlePrompt}

\* The path parameter: the 11 names and one that is none of them.
BlockNameInputs == BlockNameSet \cup {"summary"}

\* Every prompt of at most MaxLen tokens over a small alphabet.
MaxLen == 3

PromptAlphabet == {"Buyer", ":", "Acme", "price", " ", "₹", "5"}

ShortPrompts == UNION {[1..n -> PromptAlphabet] : n \in 0..MaxLen}

Prompts == ShortPrompts \cup ExamplePrompts

\* The moments at which the generator is constructed.
ConstructionDates ==
    {[year |-> 2026, month |-> 11, day |-> 3], [year |-> 2027, month |-> 3, day |-> 1]}

(***************************************************************************)
(* State.                                                                  *)
(*   generator  the module-level DocumentGenerator of main.py              *)
(*   request    the request served last                                    *)
(*   response   the response to it                                         *)
(*   content    the text its handler rendered                              *)
(*   lastPost   history: the prompt of the latest POST /generate_agreement *)
(*              whose field extraction completed                           *)
(***************************************************************************)
VARIABLES generator, request, response, content, lastPost

vars == <<generator, request, response, content, lastPost>>

PostRequest(user_prompt) ==
    [method |-> "POST", block_name |-> "", user_prompt |-> user_prompt]

GetRequest(block_name, user_prompt) ==
    [method |-> "GET", block_name |-> block_name, user_prompt |-> user_prompt]

NoRequest == [method |-> "none", block_name |-> "", user_prompt |-> <<>>]

NoResponse == [status |-> "none"]

NoPost == [some |-> FALSE, prompt |-> <<>>]

Init ==
    /\ generator \in {DocumentGenerator(now) : now \in ConstructionDates}
    /\ request = NoRequest
    /\ response = NoResponse
    /\ content = <<>>
    /\ lastPost = NoPost

\* One request served: the handler's result becomes the state.
Serve(req, done) ==
    /\ generator' = done.generator
    /\ request' = req
    /\ response' = done.response
    /\ content' = done.content

Post(user_prompt) ==
    /\ Serve(PostRequest(user_prompt), post_generate_agreement(generator, user_prompt))
    /\ lastPost' = IF _parse_user_prompt(user_prompt).raised
                   THEN lastPost
                   ELSE [some |-> TRUE, prompt |-> user_prompt]

GetBlock(block_name, user_prompt) ==
    /\ Serve(GetRequest(block_name, user_prompt),
             generate_single_block(generator, block_name, user_prompt))
    /\ UNCHANGED lastPost

Next ==
    \/ \E user_prompt \in ServerPrompts : Post(user_prompt)
    \/ \E block_name \in BlockNameInputs, user_prompt \in ServerPrompts :
          GetBlock(block_name, user_prompt)

\* The shared generator serving any sequence of requests.
Spec == Init /\ [][Next]_vars

\* generate_agreement as a function of the prompt: one call on a new generator.
InitFn ==
    /\ generator \in {DocumentGenerator(now) : now \in ConstructionDates}
    /\ request \in {PostRequest(user_prompt) : user_prompt \in Prompts}
    /\ response = NoResponse
    /\ content = <<>>
    /\ lastPost = NoPost

Generate ==
    /\ request.method = "POST"
    /\ response = NoResponse
    /\ Post(request.user_prompt)

NextFn == Generate

SpecFn == InitFn /\ [][NextFn]_vars

(***************************************************************************)
(* Reading a rendered text by its delimiters, without the block pattern.   *)
(***************************************************************************)
\* The positions of s at which the tokens sub stand.
Occurs(sub, s) ==
    {i \in 1..(Len(s) - Len(sub) + 1) : SubSeq(s, i, i + Len(sub) - 1) = sub}

\* sub in s
Contains(s, sub) == Occurs(sub, s) # {}

Least(S) == CHOOSE i \in S : \A j \in S : i <= j

\* The name each rendering function writes in the delimiters of its block.
BlockLabel ==
    [title |-> <<"TITLE">>, contract_id |-> <<"CONTRACT", " ", "ID">>,
     parties_intro |-> <<"PARTIES", " ", "INTRO">>, buyer |-> <<"BUYER">>,
     supplier |-> <<"SUPPLIER">>, scope |-> <<"SCOPE">>,
     commercial |-> <<"COMMERCIAL">>, delivery |-> <<"DELIVERY">>,
     quality |-> <<"QUALITY">>, penalties |-> <<"PENALTIES">>,
     confidentiality |-> <<"CONFIDENTIALITY">>]

\* The trimmed text of text between the start delimiter of block_name and the
\* end delimiter of block_name that follows it (<<>> if either is missing).
DelimitedBody(text, block_name) ==
    LET starts == Occurs(BlockStart(BlockLabel[block_name]), text)
        from == Least(starts) + Len(BlockStart(BlockLabel[block_name]))
        ends == {j \in Occurs(BlockEnd(BlockLabel[block_name]), text) : j >= from}
    IN IF starts = {} THEN <<>>
       ELSE IF ends = {} THEN <<>>
       ELSE strip(SubSeq(text, from, Least(ends) - 1))

\* The text that follows "Enterprise Name: " on its line of a buyer block body.
EnterpriseName(body) ==
    LET at == Occurs(<<"Enterprise Name:", " ">>, body)
        from == Least(at) + 2
        stops == {j \in from..Len(body) : body[j] = "\n"} \cup {Len(body) + 1}
    IN IF at = {} THEN <<>> ELSE SubSeq(body, from, Least(stops) - 1)

\* The prompt has no token that reads buyer or purchaser in any case.
NoBuyerMention(user_prompt) ==
    \A i \in DOMAIN user_prompt : LowerTok(user_prompt[i]) \notin {"buyer", "purchaser"}

FieldKeySet == {FieldKeys[i] : i \in DOMAIN FieldKeys}

\* A POST /generate_agreement has been served: response answers request.
PostServed == request.method = "POST" /\ response # NoResponse

\* The response the request would get from a generator that has served nothing
\* since its construction.
ResponseAlone(req) ==
    IF req.method = "POST"
    THEN post_generate_agreement([generator EXCEPT !.parsed_prompt = EmptyFields],
                                 req.user_prompt).response
    ELSE generate_single_block([generator EXCEPT !.parsed_prompt = EmptyFields],
                               req.block_name, req.user_prompt).response

\* The fields of the latest POST whose extraction completed.
FieldsOfLastPost ==
    IF lastPost.some THEN _parse_user_prompt(lastPost.prompt).value ELSE EmptyFields

(***************************************************************************)
(* Properties.                                                             *)
(***************************************************************************)
\* C1: for every prompt, generate_agreement returns a mapping whose keys are
\* exactly the 11 block names and whose every value is non-empty.  The POST
\* handler answers success with that mapping exactly when the call returns.
C1_ElevenNonEmptyBlocks ==
    PostServed =>
      /\ response.status = "success"
      /\ DOMAIN response.agreement = BlockNameSet
      /\ \A k \in BlockNameSet : response.agreement[k] # <<>>

\* C2: _parse_user_prompt never raises: for every prompt it returns a mapping
\* with all 9 field keys, each with a non-empty value.
C2_ExtractionNeverRaises ==
    request.method = "POST" =>
      /\ ~_parse_user_prompt(request.user_prompt).raised
      /\ DOMAIN _parse_user_prompt(request.user_prompt).value = FieldKeySet
      /\ \A k \in FieldKeySet : _parse_user_prompt(request.user_prompt).value[k] # <<>>

\* C3: whatever requests the shared generator has served before, each response
\* is the one its request would get if it ran alone.
C3_ResponseAsIfAlone ==
    request # NoRequest => response = ResponseAlone(request)

\* C4: a GET with a non-empty prompt and one of the 11 block names answers
\* success with the trimmed body of the block it rendered.
C4_SingleBlockSuccess ==
    (/\ request.method = "GET"
     /\ request.user_prompt # <<>>
     /\ request.block_name \in BlockNameSet)
    => response = SuccessBlock(request.block_name,
                               DelimitedBody(RenderBlock(generator, request.block_name),
                                             request.block_name))

\* C5: for a prompt without a buyer or purchaser mention, the Enterprise Name
\* line of the buyer block of the returned agreement reads [BUYER NAME].
C5_BuyerNamePlaceholder ==
    (PostServed /\ NoBuyerMention(request.user_prompt))
    => /\ response.status = "success"
       /\ EnterpriseName(response.agreement["buyer"])
            = _placeholder(<<"buyer", " ", "name">>)

\* C6: for "Supplier: FreshCo, price: ₹50000, payment: Net 30" the commercial
\* block of the returned agreement contains "₹50000" and "Net 30".
C6_CommercialStatesPriceAndTerms ==
    (PostServed /\ request.user_prompt = FreshCoPrompt)
    => /\ response.status = "success"
       /\ Contains(response.agreement["commercial"], <<"₹", "50000">>)
       /\ Contains(response.agreement["commercial"], <<"Net", " ", "30">>)

\* C7: all or nothing.  When the text was rendered and some block is empty
\* after the scan, the POST answers {status: error, message} with the message
\* naming the first empty block in the fixed order, and no agreement; when no
\* block is empty it answers success with all the scanned blocks.  A response
\* never carries an agreement with a block missing or empty.
C7_AllOrNothing ==
    /\ (request.method = "POST" /\ content # <<>>) =>
         LET blocks == ScanBlocks(content)
             empty == {i \in DOMAIN BlockNames : blocks[BlockNames[i]] = <<>>}
         IN IF empty = {}
            THEN response = SuccessAgreement(blocks)
            ELSE response = ErrorResponse(MissingBlock(BlockNames[Least(empty)]))
    /\ (PostServed /\ "agreement" \in DOMAIN response) =>
         /\ DOMAIN response.agreement = BlockNameSet
         /\ \A k \in BlockNameSet : response.agreement[k] # <<>>

\* C7's case: a POST whose rendered text parses with the commercial block
\* missing has been answered with the error that names it.
C7_MissingBlockReported ==
    /\ request.method = "POST"
    /\ content # <<>>
    /\ ScanBlocks(content)["commercial"] = <<>>
    /\ ScanBlocks(content)["scope"] # <<>>
    /\ response = ErrorResponse("Missing required block: commercial")

\* C8: a GET whose block_name is none of the 11 names answers
\* {error: "Invalid block name"}, whatever the user_prompt.
C8_InvalidNameShape ==
    (request.method = "GET" /\ request.block_name \notin BlockNameSet)
    => response = InvalidBlockName

\* C9: whenever generate_agreement returns, each of the 11 bodies is the trimmed
\* text of the rendered document between the block's start delimiter and its
\* end delimiter.
C9_BodyIsDelimitedText ==
    (PostServed /\ response.status = "success")
    => \A k \in BlockNameSet : response.agreement[k] = DelimitedBody(content, k)

=============================================================================
